---- MODULE Spec2Model ----
(***************************************************************************)
(* Model of the watchit crate (src/src/lib.rs): the Watcher facade over    *)
(* notify's RecommendedWatcher and notify_debouncer_full's Debouncer.      *)
(*                                                                         *)
(* The facade is modelled statement by statement.  The two crates it calls *)
(* are modelled only as far as lib.rs fixes their behaviour: events are    *)
(* held for the 2 second timeout before the handler is triggered.  What the*)
(* crates decide internally (which expired events one flush takes, whether *)
(* add_root de-duplicates) is left as a nondeterministic choice.           *)
(***************************************************************************)
EXTENDS Naturals, Sequences, FiniteSets

\* The files the client names; "a.txt" and "b.txt" stand for any two paths.
Paths == {"a.txt", "b.txt"}

\* Duration::from_secs(2): the debounce timeout, in seconds.
Timeout == 2

\* RecursiveMode::NonRecursive, the mode watch passes to both calls.
NonRecursive == "NonRecursive"

\* Bound on the raw events queued for one path.
MaxPending == 2

\* Bound on the entries of the cache's root list.
MaxRoots == 3

\* Bound on the raw events queued over both instances when two are modelled.
MaxEvents == 2

\* Two Watcher values constructed in one process.
Instances == {"A", "B"}

VARIABLES
    fs,            \* the paths that exist on disk
    subs,          \* the paths the notify watcher is subscribed to
    roots,         \* the roots of the debouncer's cache: <<path, mode>> entries
    filename,      \* the argument of the last watch call ("" before the first)
    os_result,     \* what the OS subscription of the last watch call reported
    result,        \* what the last watch call returned ("none" before the first)
    pending,       \* per path, the ages (seconds) of the raw events not yet flushed
    unhandled,     \* paths changed since the handler was last invoked for them
    FILE_CHANGED,  \* the flag the test's handler sets
    last_batch,    \* the paths of the batch the handler was last invoked with
    modes,         \* per path, the mode it was subscribed with ("none": never)
    inst           \* two Watcher values side by side: per instance, its own
                   \* subs, roots, pending, flag, and asked (the paths it was told to watch)

vars == <<fs, subs, roots, filename, os_result, result, pending, unhandled, FILE_CHANGED,
          last_batch, modes, inst>>

Range(s) == {s[i] : i \in DOMAIN s}

Min(a, b) == IF a < b THEN a ELSE b

\* The paths that have at least one root entry in the cache.
RootPaths == {r[1] : r \in Range(roots)}

\* Number of root entries of path p.
RootCount(p) == Cardinality({i \in DOMAIN roots : roots[i][1] = p})

\* A watch that subscribes recursively.
SubscriptionModeRecursive(p) == "Recursive"

\* The mode watch passes to watcher().watch for path p.
SubscriptionMode(p) == NonRecursive

\* The mode watch passes to cache().add_root for path p.
RootMode(p) == NonRecursive

\* Outcome of the OS subscription: a missing path cannot be subscribed;
\* an existing one may still be refused (err).
OsSubscribe(p, err) == IF p \notin fs THEN "PathNotFound" ELSE err

\* debouncer.watcher().watch(path, mode): the subscription set afterwards.
WatcherWatch(s, p, os) == IF os = "Ok" THEN s \cup {p} ELSE s

\* A watch that reports success whatever the subscription did.
WatchResultSwallowed(os) == "Ok"

\* `result`, the value watch returns: the outcome of the subscription.
WatchResult(os) == os

\* debouncer.cache().add_root(path, mode): the root list afterwards.
\* dedup: whether the cache drops an entry it already has.
AddRoot(r, p, mode, dedup) ==
    IF dedup /\ <<p, mode>> \in Range(r) THEN r ELSE Append(r, <<p, mode>>)

\* A debouncer that never finds an event old enough.
ExpiredNever(age) == age > Timeout

\* Whether the debouncer may hand an event of this age to the handler.
Expired(age) == age >= Timeout

\* Number of expired events in a queue (they are its oldest, i.e. first, ones).
NumExpired(q) == Cardinality({i \in DOMAIN q : Expired(q[i])})

\* A watch that runs the handler itself before it returns.
FlagAfterWatchDispatched(flag) == TRUE

\* The handler's flag after a watch call: watch calls watcher().watch and
\* cache().add_root and nothing else, so the flag is as it was.
FlagAfterWatch(flag) == flag

\* A dispatcher that reports every path, changed or not.
BatchAll(take) == Paths

\* The paths of the batch a flush hands to the handler: those it took events of.
Batch(take) == {p \in Paths : take[p] > 0}

\* The handler of the test: sets FILE_CHANGED.
Handler(flag) == TRUE

\* The paths still unhandled after the handler got a batch for paths `batch`.
AfterDispatch(unh, batch) == unh \ batch

\* A process-wide debouncer that every Watcher value reaches.
DebouncerShared(w) == "A"

\* self.debouncer: the debouncer a call on Watcher value w reaches, its own.
DebouncerOf(w) == w

\* Watcher::new(handler): a fresh debouncer, nothing watched, nothing queued.
NewWatcher ==
    [subs |-> {}, roots |-> <<>>, pending |-> [p \in Paths |-> <<>>],
     flag |-> FALSE, asked |-> {}]

\* Root entries over all instances.
TotalRoots == Len(inst["A"].roots) + Len(inst["B"].roots)

\* Raw events queued over all instances.
TotalPending ==
    Len(inst["A"].pending["a.txt"]) + Len(inst["A"].pending["b.txt"])
    + Len(inst["B"].pending["a.txt"]) + Len(inst["B"].pending["b.txt"])

TypeOK ==
    /\ fs \subseteq Paths
    /\ subs \subseteq Paths
    /\ roots \in Seq(Paths \X {NonRecursive, "Recursive"})
    /\ filename \in Paths \cup {""}
    /\ os_result \in {"none", "Ok", "PathNotFound", "PermissionDenied"}
    /\ result \in {"none", "Ok", "PathNotFound", "PermissionDenied"}
    /\ pending \in [Paths -> Seq(0..Timeout)]
    /\ unhandled \subseteq Paths
    /\ FILE_CHANGED \in BOOLEAN
    /\ last_batch \subseteq Paths
    /\ modes \in [Paths -> {"none", NonRecursive, "Recursive"}]
    /\ \A w \in Instances :
        /\ inst[w].subs \subseteq Paths
        /\ inst[w].roots \in Seq(Paths \X {NonRecursive, "Recursive"})
        /\ inst[w].pending \in [Paths -> Seq(0..Timeout)]
        /\ inst[w].flag \in BOOLEAN
        /\ inst[w].asked \subseteq Paths

\* Watcher::new(handler): nothing watched, nothing queued, handler not yet run.
Init ==
    /\ fs = {}
    /\ subs = {}
    /\ roots = <<>>
    /\ filename = ""
    /\ os_result = "none"
    /\ result = "none"
    /\ pending = [p \in Paths |-> <<>>]
    /\ unhandled = {}
    /\ FILE_CHANGED = FALSE
    /\ last_batch = {}
    /\ modes = [p \in Paths |-> "none"]
    /\ inst = [w \in Instances |-> NewWatcher]

\* File::create(path) by the client.
CreateFile(p) ==
    /\ p \notin fs
    /\ fs' = fs \cup {p}
    /\ UNCHANGED <<subs, roots, filename, os_result, result, pending, unhandled, FILE_CHANGED,
                   last_batch, modes, inst>>

\* Watcher::watch(filename).
Watch(p, err, dedup) ==
    LET os == OsSubscribe(p, err) IN
    /\ Len(roots) < MaxRoots
    /\ subs' = WatcherWatch(subs, p, os)
    /\ modes' = IF os = "Ok" THEN [modes EXCEPT ![p] = SubscriptionMode(p)] ELSE modes
    /\ roots' = AddRoot(roots, p, RootMode(p), dedup)
    /\ filename' = p
    /\ os_result' = os
    /\ result' = WatchResult(os)
    /\ FILE_CHANGED' = FlagAfterWatch(FILE_CHANGED)
    /\ UNCHANGED <<fs, pending, unhandled, last_batch, inst>>

\* file.write_all / flush on a subscribed file: the raw event source pushes
\* one event into the debouncer.  (A file without subscription yields none.)
WriteFile(p) ==
    /\ p \in fs
    /\ p \in subs
    /\ Len(pending[p]) < MaxPending
    /\ pending' = [pending EXCEPT ![p] = Append(@, 0)]
    /\ unhandled' = unhandled \cup {p}
    /\ UNCHANGED <<fs, subs, roots, filename, os_result, result, FILE_CHANGED, last_batch, modes, inst>>

\* One second passes.  Ages stop counting at Timeout.
Tick ==
    /\ \E p \in Paths : \E i \in DOMAIN pending[p] : pending[p][i] < Timeout
    /\ pending' = [p \in Paths |-> [i \in DOMAIN pending[p] |-> Min(pending[p][i] + 1, Timeout)]]
    /\ UNCHANGED <<fs, subs, roots, filename, os_result, result, unhandled, FILE_CHANGED,
                   last_batch, modes, inst>>

\* The debouncer's background thread hands a batch to the handler: take[p]
\* of the expired events of each path, at least one event in all.
Flush(take) ==
    /\ \A p \in Paths : take[p] <= NumExpired(pending[p])
    /\ \E p \in Paths : take[p] > 0
    /\ pending' = [p \in Paths |-> SubSeq(pending[p], take[p] + 1, Len(pending[p]))]
    /\ last_batch' = Batch(take)
    /\ unhandled' = AfterDispatch(unhandled, Batch(take))
    /\ FILE_CHANGED' = Handler(FILE_CHANGED)
    /\ UNCHANGED <<fs, subs, roots, filename, os_result, result, modes, inst>>

\* A flush that takes the whole queue of p, all of it expired.
QuietFlush(p) ==
    \E take \in [Paths -> 0..MaxPending] :
        /\ take[p] = Len(pending[p])
        /\ take[p] > 0
        /\ Flush(take)

Next ==
    \/ \E p \in Paths : CreateFile(p)
    \/ \E p \in Paths, err \in {"Ok", "PermissionDenied"}, dedup \in BOOLEAN : Watch(p, err, dedup)
    \/ \E p \in Paths : WriteFile(p)
    \/ Tick
    \/ \E take \in [Paths -> 0..MaxPending] : Flush(take)

Spec == Init /\ [][Next]_vars

\* The single-instance state, which the two-instance actions leave alone.
single == <<subs, roots, filename, os_result, result, pending, unhandled, FILE_CHANGED,
            last_batch, modes>>

\* w.watch(filename) on one of two Watcher values.
WatchOn(w, p, err, dedup) ==
    LET os == OsSubscribe(p, err)
        d  == DebouncerOf(w)
        touched == [inst EXCEPT ![d].subs = WatcherWatch(@, p, os),
                                ![d].roots = AddRoot(@, p, RootMode(p), dedup)]
    IN
    /\ TotalRoots < MaxRoots
    /\ inst' = [touched EXCEPT ![w].asked = @ \cup {p}]
    /\ UNCHANGED <<fs, single>>

\* A write to a file: every instance subscribed to it gets one raw event.
WriteFileTwo(p) ==
    LET watchers == {w \in Instances : p \in inst[w].subs} IN
    /\ p \in fs
    /\ watchers # {}
    /\ TotalPending + Cardinality(watchers) <= MaxEvents
    /\ inst' = [w \in Instances |->
                  IF w \in watchers
                  THEN [inst[w] EXCEPT !.pending[p] = Append(@, 0)]
                  ELSE inst[w]]
    /\ UNCHANGED <<fs, single>>

\* One second passes for both instances.
TickTwo ==
    /\ \E w \in Instances, p \in Paths :
           \E i \in DOMAIN inst[w].pending[p] : inst[w].pending[p][i] < Timeout
    /\ inst' = [w \in Instances |->
                  [inst[w] EXCEPT !.pending =
                      [p \in Paths |-> [i \in DOMAIN @[p] |-> Min(@[p][i] + 1, Timeout)]]]]
    /\ UNCHANGED <<fs, single>>

\* The background thread of instance w hands a batch to w's handler.
FlushOn(w, take) ==
    /\ \A p \in Paths : take[p] <= NumExpired(inst[w].pending[p])
    /\ \E p \in Paths : take[p] > 0
    /\ inst' = [inst EXCEPT ![w].pending =
                    [p \in Paths |-> SubSeq(@[p], take[p] + 1, Len(@[p]))],
                            ![w].flag = Handler(@)]
    /\ UNCHANGED <<fs, single>>

TwoNext ==
    \/ \E p \in Paths : CreateFile(p)
    \/ \E w \in Instances, p \in Paths, err \in {"Ok", "PermissionDenied"}, dedup \in BOOLEAN :
           WatchOn(w, p, err, dedup)
    \/ \E p \in Paths : WriteFileTwo(p)
    \/ TickTwo
    \/ \E w \in Instances, take \in [Paths -> 0..MaxEvents] : FlushOn(w, take)

\* Two Watcher values in one process.
TwoSpec == Init /\ [][TwoNext]_vars

\* The background thread keeps running and time keeps passing.
LiveSpec == Spec /\ WF_vars(Tick) /\ \A p \in Paths : WF_vars(QuietFlush(p))

(***************************************************************************)
(* Properties                                                              *)
(***************************************************************************)

\* C1: watch is all-or-nothing: after a failed watch(P), P is neither
\* subscribed nor a root of the cache; after a successful one it is both.
C1_AllOrNothing ==
    /\ result \notin {"none", "Ok"} => (filename \notin subs /\ filename \notin RootPaths)
    /\ result = "Ok" => (filename \in subs /\ filename \in RootPaths)

\* C3: every change made to a watched file is eventually followed by an
\* invocation of the handler for that file.
C3_EventualDelivery == \A p \in Paths : (p \in unhandled) ~> (p \notin unhandled)

\* C3 witness: a file was watched, changed, and the handler has run for it.
C3_Witness == FILE_CHANGED /\ subs # {} /\ unhandled = {} /\ \A p \in Paths : pending[p] = <<>>

\* C4: watch returns the error whenever the OS subscription failed (a
\* missing path gives PathNotFound), and returns Ok only when the path was
\* subscribed and recorded as a root.
C4_ErrorsReturned ==
    result # "none" =>
        /\ os_result # "Ok" => result = os_result
        /\ filename \notin fs => result = "PathNotFound"
        /\ result = "Ok" => (os_result = "Ok" /\ filename \in subs /\ filename \in RootPaths)

\* C4 witness: a watch of a missing path has just failed, after an earlier
\* watch of another path succeeded.
C4_Witness == result = "PathNotFound" /\ filename \notin fs /\ subs # {}

\* C6: whenever a watched path has one raw event pending, the interface
\* offers unwatch(P): a step after which P is neither subscribed nor a root,
\* its pending event is gone, and the handler has not been invoked.
C6_UnwatchDiscards ==
    \A p \in Paths :
        (p \in subs /\ Len(pending[p]) = 1) =>
            ENABLED (/\ Next
                     /\ p \notin subs'
                     /\ p \notin RootPaths'
                     /\ pending'[p] = <<>>
                     /\ FILE_CHANGED' = FILE_CHANGED)

\* C7: the subscribed paths are exactly the root paths of the cache, and
\* each registered path has exactly one root entry.
C7_RegistryConsistent ==
    /\ subs = RootPaths
    /\ \A p \in subs : RootCount(p) = 1

\* C12: the handler is never invoked for a path without accumulated raw
\* events: every step that invokes the handler hands it a non-empty batch
\* and consumes at least one pending event of every path in the batch; so
\* constructing the watcher and watching an unchanged file invokes nothing.
C12_NoSpuriousDelivery ==
    [][(\/ FILE_CHANGED' # FILE_CHANGED
        \/ last_batch' # last_batch
        \/ \E q \in Paths : Len(pending'[q]) < Len(pending[q])
        \/ \E q \in unhandled : q \notin unhandled')
       => (/\ last_batch' # {}
           /\ \A p \in last_batch' : Len(pending'[p]) < Len(pending[p]))]_vars

\* C12 witness: both files are watched, only a.txt was changed, and the
\* handler has been invoked with a batch for a.txt alone.
C12_Witness ==
    /\ subs = Paths
    /\ FILE_CHANGED
    /\ last_batch = {"a.txt"}
    /\ pending["b.txt"] = <<>>
    /\ "b.txt" \notin unhandled

\* C16: the handler is never invoked inside a watch call: a step that
\* changes what watch writes (its argument, its result, the subscriptions,
\* the roots) leaves the handler's flag, the last batch and the queues as
\* they were.
C16_HandlerOffRegistration ==
    [][(\/ filename' # filename
        \/ result' # result
        \/ os_result' # os_result
        \/ subs' # subs
        \/ roots' # roots
        \/ modes' # modes)
       => (/\ FILE_CHANGED' = FILE_CHANGED
           /\ last_batch' = last_batch
           /\ unhandled' = unhandled
           /\ pending' = pending)]_vars

\* C16 witness: watch("b.txt") has returned Ok while an event of a.txt was
\* already old enough to be flushed, and the handler has not run.
C16_Witness ==
    /\ filename = "b.txt"
    /\ result = "Ok"
    /\ pending["a.txt"] # <<>>
    /\ Expired(pending["a.txt"][1])
    /\ ~FILE_CHANGED

\* C19: every subscribed path is subscribed NonRecursive, every root entry
\* of it records that same mode, and no root entry is Recursive.
C19_NonRecursiveOnly ==
    /\ \A p \in Paths : modes[p] # "Recursive"
    /\ \A p \in subs : modes[p] = NonRecursive
    /\ \A i \in DOMAIN roots : roots[i][2] = NonRecursive
    /\ \A i \in DOMAIN roots : roots[i][1] \in subs => roots[i][2] = modes[roots[i][1]]

\* C19 witness: both paths are subscribed and have root entries.
C19_Witness == subs = Paths /\ RootPaths = Paths

\* C17: two Watcher values do not interfere.  Each instance's subscriptions,
\* roots, queues and handler flag reflect only the paths that instance was
\* told to watch, and a step that changes one instance's subscriptions,
\* roots or handler flag leaves the other instance as it was.
C17_InstanceIsolation ==
    /\ [](\A w \in Instances :
            /\ inst[w].subs \subseteq inst[w].asked
            /\ {r[1] : r \in Range(inst[w].roots)} = inst[w].asked
            /\ \A p \in Paths : inst[w].pending[p] # <<>> => p \in inst[w].subs
            /\ inst[w].flag => inst[w].subs # {})
    /\ [][\A w, v \in Instances :
            (/\ w # v
             /\ \/ inst'[w].subs # inst[w].subs
                \/ inst'[w].roots # inst[w].roots
                \/ inst'[w].asked # inst[w].asked
                \/ inst'[w].flag # inst[w].flag)
            => inst'[v] = inst[v]]_vars

\* C17 witness: only A watches a.txt, only B watches b.txt, a.txt was
\* changed and A's handler has run, B's has not.
C17_Witness ==
    /\ inst["A"].subs = {"a.txt"}
    /\ inst["B"].subs = {"b.txt"}
    /\ inst["A"].flag
    /\ ~inst["B"].flag

====
